---- MODULE Spec2Model ----
(***************************************************************************)
(* Model of backend/scraper.py: run_once, TicketScraper.scrape_multiple,   *)
(* its worker coroutines, _retry_fetch and _fetch_single_page.             *)
(*                                                                         *)
(* asyncio is single-threaded and cooperative: a coroutine runs until its  *)
(* next await.  Every action below is a stretch of the code of one         *)
(* coroutine that ends at an await; consecutive stretches that read and    *)
(* write nothing another coroutine sees are one action.  The interleavings *)
(* of the model are those of the tasks that asyncio.gather runs.           *)
(*                                                                         *)
(* Specifications: Spec (run_once over any tokens, live site), SpecScripted *)
(* (scripted page.goto), SpecFair (Spec on an event loop that keeps        *)
(* running), SpecRetry (one target, more retries), and SpecPage (one       *)
(* attempt of _fetch_single_page with its try block spelled out:           *)
(* _wait_for_content, _handle_popups, _parse_ticket_info).                 *)
(***************************************************************************)
EXTENDS Integers, Sequences, FiniteSets, TLC

(* ---------------------------------------------------------------------- *)
(* Bounds of the model                                                     *)
(* ---------------------------------------------------------------------- *)
\* longest list of comma-separated tokens handed to run_once
MaxTargets == 3
\* largest ScrapingConfig.concurrency tried
MaxConcurrency == 2
\* largest ScrapingConfig.max_retries tried
MaxRetries == 2

(* ---------------------------------------------------------------------- *)
(* URLs.  A string is modelled by what urlparse and the validity test see  *)
(* of it: its scheme, its netloc, whether its path contains "/event/",     *)
(* and its text (the empty text is the empty string).                      *)
(* ---------------------------------------------------------------------- *)
Url(text, scheme, netloc, event) ==
    [text |-> text, scheme |-> scheme, netloc |-> netloc, event |-> event]

EmptyStr == Url("", "", "", FALSE)
UrlA == Url("https://www.opentix.life/event/A", "https", "www.opentix.life", TRUE)
UrlB == Url("http://opentix.life/event/B", "http", "opentix.life", TRUE)
NotAUrl == Url("not-a-url", "", "", FALSE)
OffDomain == Url("https://opentix.example/event/D", "https", "opentix.example", TRUE)
NoEventPath == Url("https://opentix.life/about", "https", "opentix.life", FALSE)

\* a token of the comma-separated input: a string with or without blanks
\* around it
Token(u, pad) == [url |-> u, pad |-> pad]

RawTokens ==
    { Token(UrlA, FALSE), Token(UrlB, TRUE), Token(EmptyStr, TRUE),
      Token(NotAUrl, FALSE), Token(OffDomain, FALSE), Token(NoEventPath, FALSE) }

\* str.strip(): removes the surrounding blanks
strip(tok) == tok.url

\* truth value of a Python string
Truthy(u) == u.text # ""

RECURSIVE SelectSeqOf(_, _)
\* [f(x) for x in s if keep(x)] with keep = non-empty after strip, f = strip
SelectSeqOf(s, i) ==
    IF i > Len(s) THEN << >>
    ELSE IF Truthy(strip(s[i]))
         THEN << strip(s[i]) >> \o SelectSeqOf(s, i + 1)
         ELSE SelectSeqOf(s, i + 1)

StripNonEmpty(s) == SelectSeqOf(s, 1)

\* _is_valid_opentix_url without the host allow-list
is_valid_any_host(u) ==
    IF ~Truthy(u) \/ u.scheme \notin {"http", "https"}
    THEN FALSE
    ELSE u.event

_is_valid_opentix_url(u) ==
    IF ~Truthy(u) \/ u.scheme \notin {"http", "https"}
    THEN FALSE
    ELSE u.netloc \in {"opentix.life", "www.opentix.life"} /\ u.event

RECURSIVE FilterUrls(_, _, _)
FilterUrls(s, want, i) ==
    IF i > Len(s) THEN << >>
    ELSE IF _is_valid_opentix_url(s[i]) = want
         THEN << s[i] >> \o FilterUrls(s, want, i + 1)
         ELSE FilterUrls(s, want, i + 1)


\* valid_targets and invalid_urls of run_once
ValidOf(s) == FilterUrls(s, TRUE, 1)
InvalidOf(s) == FilterUrls(s, FALSE, 1)

\* the members of a sequence
Range(s) == { s[i] : i \in 1..Len(s) }

(* ---------------------------------------------------------------------- *)
(* Records of the aggregate                                                *)
(* ---------------------------------------------------------------------- *)
\* the dict _fetch_single_page returns
PageResult(u, ok) == [url |-> u.text, success |-> ok]

\* {"url": ..., "error": ...}; raw = FALSE
ErrorRecord(text, msg) == [raw |-> FALSE, url |-> text, error |-> msg]

\* a bare string in errors: "no url provided"; raw = TRUE
RawError(msg) == [raw |-> TRUE, url |-> "", error |-> msg]

NoUrlProvided == RawError("no url provided")
InvalidFormat == "Invalid OpenTix URL format"

\* the "summary" key: a sequence holding the dict, empty when the key is absent
Summary(total, success, failed) ==
    << [total |-> total, success |-> success, failed |-> failed] >>

Aggregate(res, errs, summ) ==
    [kind |-> "aggregate", results |-> res, errors |-> errs, summary |-> summ]

NoResult == [kind |-> "none", results |-> << >>, errors |-> << >>, summary |-> << >>]
Raised == [kind |-> "raised", results |-> << >>, errors |-> << >>, summary |-> << >>]

(* ---------------------------------------------------------------------- *)
(* State                                                                   *)
(* ---------------------------------------------------------------------- *)
VARIABLES
    mode,          \* run_once called with url= ("url") or urls= ("urls")
    raw,           \* the tokens of the argument
    config,        \* ScrapingConfig: max_retries, concurrency
    site,          \* per valid url: how page.goto behaves, live or scripted
    phase,         \* where run_once is
    valid_targets, \* run_once: valid_targets
    invalid_urls,  \* run_once: invalid_urls
    session,       \* TicketScraper: playwright, browser, context
    tasks,         \* scrape_multiple: the urls of the workers, in creation order
    pc,            \* per worker: where it is
    attempt,       \* per worker: the loop variable of _retry_fetch
    backoff,       \* per worker: seconds of the asyncio.sleep it is in, else 0
    openPages,     \* per worker: pages got from new_page and not yet given to close
    sem,           \* free slots of the asyncio.Semaphore
    results,       \* scrape_multiple: results
    errors,        \* scrape_multiple: errors
    result,        \* what run_once returned to its caller
    opened,        \* number of sessions opened (__aenter__ returned)
    closed,        \* number of session teardowns (__aexit__ ran)
    fetched,       \* texts of the urls a page was requested for
    step,          \* one attempt looked at closely: where _fetch_single_page is
    waits,         \* _wait_for_content: the waits made, with their outcomes
    probed,        \* _handle_popups: the labels probed, with their outcomes
    total,         \* _parse_ticket_info: total, -1 before rows.count() returns
    rows,          \* _parse_ticket_info: the rows of the page
    row_i,         \* _parse_ticket_info: the rows gone through
    entries,       \* _parse_ticket_info: entries
    exc,           \* _fetch_single_page: the call whose exception was caught
    ret            \* what _fetch_single_page returned

vars == << mode, raw, config, site, phase, valid_targets, invalid_urls, session,
           tasks, pc, attempt, backoff, openPages, sem, results, errors,
           result, opened, closed, fetched,
           step, waits, probed, total, rows, row_i, entries, exc, ret >>

workerVars == << pc, attempt, backoff, openPages, sem, results, errors, fetched >>
inputVars == << mode, raw, config, site >>
batchVars == << phase, valid_targets, invalid_urls, session, tasks, result, opened, closed >>
pageVars == << step, waits, probed, total, rows, row_i, entries, exc, ret >>

\* what _fetch_single_page has returned before it returns
NoDict == [kind |-> "none", success |-> FALSE, entries |-> << >>, error |-> ""]

\* no attempt is looked at closely
PageIdle ==
    /\ step = "idle"
    /\ waits = << >>
    /\ probed = << >>
    /\ total = -1
    /\ rows = << >>
    /\ row_i = 0
    /\ entries = << >>
    /\ exc = ""
    /\ ret = NoDict

Workers == 1..Len(tasks)

RECURSIVE SeqsUpTo(_, _)
\* the sequences over S of length at most n
SeqsUpTo(S, n) ==
    IF n = 0 THEN { << >> }
    ELSE LET shorter == SeqsUpTo(S, n - 1)
         IN shorter \cup { Append(s, x) : s \in { t \in shorter : Len(t) = n - 1 }, x \in S }

\* the behaviour of the site for one url: live (each page.goto may raise or
\* not), or scripted (page.goto raises on the attempts with index < fails and
\* returns on the others)
Live == [scripted |-> FALSE, fails |-> 0]
Scripted(n) == [scripted |-> TRUE, fails |-> n]

\* the valid urls among the tokens
ValidUrlsIn(s) == { u \in { strip(t) : t \in Range(s) } : _is_valid_opentix_url(u) }

NoSession == [playwright |-> "none", browser |-> "none", context |-> "none"]

Init ==
    /\ mode \in {"url", "urls"}
    /\ raw \in SeqsUpTo(RawTokens, MaxTargets)
    /\ mode = "url" => Len(raw) <= 1
    /\ config \in [max_retries : 1..MaxRetries, concurrency : 1..MaxConcurrency]
    /\ site = [u \in ValidUrlsIn(raw) |-> Live]
    /\ phase = "start"
    /\ valid_targets = << >>
    /\ invalid_urls = << >>
    /\ session = NoSession
    /\ tasks = << >>
    /\ pc = << >>
    /\ attempt = << >>
    /\ backoff = << >>
    /\ openPages = << >>
    /\ sem = 0
    /\ results = << >>
    /\ errors = << >>
    /\ result = NoResult
    /\ opened = 0
    /\ closed = 0
    /\ fetched = {}
    /\ PageIdle


(* ---------------------------------------------------------------------- *)
(* run_once, up to the async with                                          *)
(* ---------------------------------------------------------------------- *)
\* targets of run_once: the split and stripped tokens (urls=), or the one
\* stripped string (url=); an empty argument is falsy and gives no target
CollectTargets ==
    IF mode = "urls" THEN StripNonEmpty(raw)
    ELSE IF Len(raw) = 1 /\ (Truthy(raw[1].url) \/ raw[1].pad)
         THEN << strip(raw[1]) >>
         ELSE << >>

\* run_once from its call to the async with: collect, return early on no
\* target, partition into valid and invalid
RunOnceCollect ==
    /\ phase = "start"
    /\ LET targets == CollectTargets
       IN IF targets = << >>
          THEN /\ result' = Aggregate(<< >>, << NoUrlProvided >>, << >>)
               /\ phase' = "returned"
               /\ UNCHANGED << valid_targets, invalid_urls >>
          ELSE /\ valid_targets' = ValidOf(targets)
               /\ invalid_urls' = InvalidOf(targets)
               /\ phase' = "enter"
               /\ UNCHANGED result
    /\ UNCHANGED << session, tasks, opened, closed >>
    /\ UNCHANGED workerVars
    /\ UNCHANGED inputVars
    /\ UNCHANGED pageVars

(* ---------------------------------------------------------------------- *)
(* The session: __aenter__, _init_browser, __aexit__, _cleanup             *)
(* ---------------------------------------------------------------------- *)
\* the session _init_browser leaves behind: launch raises, new_context (or
\* the route installation) raises, or everything succeeds
InitBrowser(how) ==
    CASE how = "launch_raises" ->
            [playwright |-> "started", browser |-> "none", context |-> "none"]
      [] how = "context_raises" ->
            [playwright |-> "started", browser |-> "open", context |-> "none"]
      [] OTHER ->
            [playwright |-> "started", browser |-> "open", context |-> "open"]

\* __aenter__: start playwright and initialise the browser; an exception of
\* _init_browser is re-raised and leaves run_once (no __aexit__ runs then)
AEnter ==
    /\ phase = "enter"
    /\ \E how \in {"ok", "launch_raises", "context_raises"} :
          /\ session' = InitBrowser(how)
          /\ IF how = "ok"
             THEN /\ opened' = opened + 1
                  /\ phase' = "scrape"
                  /\ UNCHANGED result
             ELSE /\ phase' = "returned"
                  /\ result' = Raised
                  /\ UNCHANGED opened
    /\ UNCHANGED << valid_targets, invalid_urls, tasks, closed >>
    /\ UNCHANGED workerVars
    /\ UNCHANGED inputVars
    /\ UNCHANGED pageVars

\* _cleanup: context.close() then browser.close() inside one try; the first
\* that raises ends the try, and the exception is logged
Cleanup(s, ctxRaises, brRaises) ==
    IF s.context # "none" /\ ctxRaises
    THEN [s EXCEPT !.context = "close_raised"]
    ELSE LET c == IF s.context # "none" THEN [s EXCEPT !.context = "closed"] ELSE s
         IN IF c.browser = "none" THEN c
            ELSE IF brRaises THEN [c EXCEPT !.browser = "close_raised"]
                 ELSE [c EXCEPT !.browser = "closed"]

\* __aexit__: _cleanup, then playwright.stop()
AExit ==
    /\ phase = "exit"
    /\ \E ctxRaises \in BOOLEAN, brRaises \in BOOLEAN :
          session' = [Cleanup(session, ctxRaises, brRaises) EXCEPT !.playwright = "stopped"]
    /\ closed' = closed + 1
    /\ phase' = "merge"
    /\ UNCHANGED << valid_targets, invalid_urls, tasks, result, opened >>
    /\ UNCHANGED workerVars
    /\ UNCHANGED inputVars
    /\ UNCHANGED pageVars

(* ---------------------------------------------------------------------- *)
(* scrape_multiple                                                         *)
(* ---------------------------------------------------------------------- *)
\* the workers created: one per target that is non-empty after strip
TasksOf(targets) == SelectSeq(targets, Truthy)

\* scrape_multiple from its call to the gather: the early return on an empty
\* list, or the semaphore and one worker per target
ScrapeMultiple ==
    /\ phase = "scrape"
    /\ IF valid_targets = << >>
       THEN /\ result' = Aggregate(<< >>, << NoUrlProvided >>, << >>)
            /\ phase' = "exit"
            /\ UNCHANGED << tasks, pc, attempt, backoff, openPages, sem >>
       ELSE /\ tasks' = TasksOf(valid_targets)
            /\ pc' = [w \in 1..Len(tasks') |-> "gate"]
            /\ attempt' = [w \in 1..Len(tasks') |-> 0]
            /\ backoff' = [w \in 1..Len(tasks') |-> 0]
            /\ openPages' = [w \in 1..Len(tasks') |-> 0]
            /\ sem' = config.concurrency
            /\ phase' = "gather"
            /\ UNCHANGED result
    /\ UNCHANGED << results, errors, fetched >>
    /\ UNCHANGED << valid_targets, invalid_urls, session, opened, closed >>
    /\ UNCHANGED inputVars
    /\ UNCHANGED pageVars

\* the summary scrape_multiple computes
SummaryOf(targets, res, errs) == Summary(Len(targets), Len(res), Len(errs))

\* GatherDone without the wait for the workers
GatherDoneEarly ==
    /\ phase = "gather"
    /\ result' = Aggregate(results, errors, SummaryOf(valid_targets, results, errors))
    /\ phase' = "exit"
    /\ UNCHANGED << valid_targets, invalid_urls, session, tasks, opened, closed >>
    /\ UNCHANGED workerVars
    /\ UNCHANGED inputVars
    /\ UNCHANGED pageVars

\* the gather has returned: every worker is done; build the returned dict
GatherDone ==
    /\ phase = "gather"
    /\ \A w \in Workers : pc[w] = "done"
    /\ result' = Aggregate(results, errors, SummaryOf(valid_targets, results, errors))
    /\ phase' = "exit"
    /\ UNCHANGED << valid_targets, invalid_urls, session, tasks, opened, closed >>
    /\ UNCHANGED workerVars
    /\ UNCHANGED inputVars
    /\ UNCHANGED pageVars

RECURSIVE InvalidRecords(_, _)
\* the records run_once appends for invalid_urls
InvalidRecords(bad, i) ==
    IF i > Len(bad) THEN << >>
    ELSE << ErrorRecord(bad[i].text, InvalidFormat) >> \o InvalidRecords(bad, i + 1)

\* run_once after the async with: append the invalid-url records and return
RunOnceReturn ==
    /\ phase = "merge"
    /\ result' = [result EXCEPT !.errors = @ \o InvalidRecords(invalid_urls, 1)]
    /\ phase' = "returned"
    /\ UNCHANGED << valid_targets, invalid_urls, session, tasks, opened, closed >>
    /\ UNCHANGED workerVars
    /\ UNCHANGED inputVars
    /\ UNCHANGED pageVars


(* ---------------------------------------------------------------------- *)
(* The workers: worker, _retry_fetch, _fetch_single_page                   *)
(* ---------------------------------------------------------------------- *)
\* worker: results.append(data), then the async with releases the slot; the
\* frame of _retry_fetch is gone, its loop variable is modelled as 0 again
AppendResult(w, data) ==
    /\ results' = Append(results, data)
    /\ sem' = sem + 1
    /\ pc' = [pc EXCEPT ![w] = "done"]
    /\ attempt' = [attempt EXCEPT ![w] = 0]
    /\ UNCHANGED << errors, backoff >>

\* AppendError without the append: the exception is swallowed
AppendErrorLost(w, msg) ==
    /\ sem' = sem + 1
    /\ pc' = [pc EXCEPT ![w] = "done"]
    /\ attempt' = [attempt EXCEPT ![w] = 0]
    /\ UNCHANGED << results, errors, backoff >>

\* AppendError with the exception leaving the gather: the other workers are
\* cancelled
AppendErrorCancels(w, msg) ==
    /\ errors' = Append(errors, ErrorRecord(tasks[w].text, msg))
    /\ sem' = sem + 1
    /\ pc' = [v \in DOMAIN pc |-> "done"]
    /\ attempt' = [attempt EXCEPT ![w] = 0]
    /\ UNCHANGED << results, backoff >>

\* AppendError without the except branch of worker: the exception ends the
\* task, which never reports an outcome
AppendErrorUncaught(w, msg) ==
    /\ sem' = sem + 1
    /\ pc' = [pc EXCEPT ![w] = "raised"]
    /\ attempt' = [attempt EXCEPT ![w] = 0]
    /\ UNCHANGED << results, errors, backoff >>

\* worker: the except branch, errors.append({url, error}), then the release
AppendError(w, msg) ==
    /\ errors' = Append(errors, ErrorRecord(tasks[w].text, msg))
    /\ sem' = sem + 1
    /\ pc' = [pc EXCEPT ![w] = "done"]
    /\ attempt' = [attempt EXCEPT ![w] = 0]
    /\ UNCHANGED << results, backoff >>

\* retry_delay of ScrapingConfig, in seconds
RetryDelay == 2

\* Backoff with the attempts counted from 1
BackoffOneBased(k) == RetryDelay * (2 ^ (k + 1))

\* _retry_fetch: backoff = retry_delay * (2 ** attempt)
Backoff(k) == RetryDelay * (2 ^ k)

\* RetryOrRaise with the slot handed back for the time of the sleep
RetryOrRaiseReleasing(w, msg) ==
    IF attempt[w] + 1 < config.max_retries
    THEN /\ pc' = [pc EXCEPT ![w] = "sleep"]
         /\ backoff' = [backoff EXCEPT ![w] = Backoff(attempt[w])]
         /\ sem' = sem + 1
         /\ UNCHANGED << attempt, results, errors >>
    ELSE AppendError(w, msg)

\* _retry_fetch: the except branch for an exception that left
\* _fetch_single_page: back off before the next attempt, or, after the last
\* attempt, re-raise into worker
RetryOrRaise(w, msg) ==
    IF attempt[w] + 1 < config.max_retries
    THEN /\ pc' = [pc EXCEPT ![w] = "sleep"]
         /\ backoff' = [backoff EXCEPT ![w] = Backoff(attempt[w])]
         /\ UNCHANGED << attempt, sem, results, errors >>
    ELSE AppendError(w, msg)

\* Acquire without the wait for a free slot
AcquireUngated(w) ==
    /\ phase = "gather"
    /\ pc[w] = "gate"
    /\ \A v \in 1..(w - 1) : pc[v] # "gate"
    /\ sem' = sem - 1
    /\ pc' = [pc EXCEPT ![w] = "new_page"]
    /\ UNCHANGED << attempt, backoff, openPages, results, errors, fetched >>
    /\ UNCHANGED batchVars
    /\ UNCHANGED inputVars
    /\ UNCHANGED pageVars

\* worker: async with sem.  asyncio starts the tasks of a gather in creation
\* order and asyncio.Semaphore wakes its waiters first come first served, so a
\* worker takes a slot only after the workers created before it
Acquire(w) ==
    /\ phase = "gather"
    /\ pc[w] = "gate"
    /\ \A v \in 1..(w - 1) : pc[v] # "gate"
    /\ sem > 0
    /\ sem' = sem - 1
    /\ pc' = [pc EXCEPT ![w] = "new_page"]
    /\ UNCHANGED << attempt, backoff, openPages, results, errors, fetched >>
    /\ UNCHANGED batchVars
    /\ UNCHANGED inputVars
    /\ UNCHANGED pageVars

\* _fetch_single_page up to the try block: context.new_page() returns a page,
\* or raises before the try block is entered
NewPage(w) ==
    /\ phase = "gather"
    /\ pc[w] = "new_page"
    /\ fetched' = fetched \cup {tasks[w].text}
    /\ \/ /\ openPages' = [openPages EXCEPT ![w] = @ + 1]
          /\ pc' = [pc EXCEPT ![w] = "page"]
          /\ UNCHANGED << attempt, backoff, sem, results, errors >>
       \/ /\ RetryOrRaise(w, "Error: new_page")
          /\ UNCHANGED openPages
    /\ UNCHANGED batchVars
    /\ UNCHANGED inputVars
    /\ UNCHANGED pageVars

\* the outcomes page.goto can have on this attempt: TRUE when it raises
GotoRaises(w) ==
    IF site[tasks[w]].scripted
    THEN { attempt[w] < site[tasks[w]].fails }
    ELSE BOOLEAN

\* the try block of _fetch_single_page: page.goto, then _wait_for_content,
\* _handle_popups, _get_event_title and _parse_ticket_info.  It returns the
\* dict with success = True, or an exception of one of the calls is caught by
\* its except branch, which returns the dict with success = False
TryBlock(w, gotoRaises, laterRaises) ==
    PageResult(tasks[w], ~gotoRaises /\ ~laterRaises)

\* AfterFinally without page.close()
AfterFinallyNoClose(n) == n

\* the pages of the worker after the finally of _fetch_single_page
AfterFinally(n) == n - 1

\* _fetch_single_page from the try block on: the try block, its except
\* branch, and the finally, page.close().  When page.close() returns, the dict
\* goes through _retry_fetch to worker; when it raises, the exception replaces
\* the dict and leaves _fetch_single_page
FetchPage(w) ==
    /\ phase = "gather"
    /\ pc[w] = "page"
    /\ openPages' = [openPages EXCEPT ![w] = AfterFinally(@)]
    /\ \E gotoRaises \in GotoRaises(w), laterRaises \in BOOLEAN :
          \/ AppendResult(w, TryBlock(w, gotoRaises, laterRaises))
          \/ RetryOrRaise(w, "Error: page.close")
    /\ UNCHANGED fetched
    /\ UNCHANGED batchVars
    /\ UNCHANGED inputVars
    /\ UNCHANGED pageVars

\* _retry_fetch: asyncio.sleep(backoff) is over, the loop takes the next attempt
Wake(w) ==
    /\ phase = "gather"
    /\ pc[w] = "sleep"
    /\ attempt' = [attempt EXCEPT ![w] = @ + 1]
    /\ backoff' = [backoff EXCEPT ![w] = 0]
    /\ pc' = [pc EXCEPT ![w] = "new_page"]
    /\ UNCHANGED << openPages, sem, results, errors, fetched >>
    /\ UNCHANGED batchVars
    /\ UNCHANGED inputVars
    /\ UNCHANGED pageVars

Next ==
    \/ RunOnceCollect
    \/ AEnter
    \/ ScrapeMultiple
    \/ \E w \in Workers : Acquire(w)
    \/ \E w \in Workers : NewPage(w)
    \/ \E w \in Workers : FetchPage(w)
    \/ \E w \in Workers : Wake(w)
    \/ GatherDone
    \/ AExit
    \/ RunOnceReturn

Spec == Init /\ [][Next]_vars

\* the tokens of the batches run on the event loop: a valid url and an
\* invalid one (a worker does not look at which valid url it has)
FairTokens == { Token(UrlA, FALSE), Token(NotAUrl, FALSE) }

\* run_once(urls=...) over these tokens, against the live site
InitFair ==
    /\ mode = "urls"
    /\ raw \in SeqsUpTo(FairTokens, MaxTargets)
    /\ config \in [max_retries : 1..MaxRetries, concurrency : 1..MaxConcurrency]
    /\ site = [u \in ValidUrlsIn(raw) |-> Live]
    /\ phase = "start"
    /\ valid_targets = << >>
    /\ invalid_urls = << >>
    /\ session = NoSession
    /\ tasks = << >>
    /\ pc = << >>
    /\ attempt = << >>
    /\ backoff = << >>
    /\ openPages = << >>
    /\ sem = 0
    /\ results = << >>
    /\ errors = << >>
    /\ result = NoResult
    /\ opened = 0
    /\ closed = 0
    /\ fetched = {}
    /\ PageIdle

\* the program on an event loop that keeps running: asyncio runs every task
\* that is ready, and every awaited page operation ends, by its result or by
\* its timeout (page_timeout, wait_timeout, network_timeout, the 600 ms of a
\* popup click), so some enabled step is always taken
SpecFair == InitFair /\ [][Next]_vars /\ WF_vars(Next)

\* the largest max_retries tried on a single target
MaxRetriesOne == 3

\* run_once(url=...) for one valid url, padded or not, with max_retries up to
\* MaxRetriesOne, against the live site
InitRetry ==
    /\ mode = "url"
    /\ raw \in { << Token(UrlA, FALSE) >>, << Token(UrlB, TRUE) >> }
    /\ config \in [max_retries : 1..MaxRetriesOne, concurrency : 1..MaxConcurrency]
    /\ site = [u \in ValidUrlsIn(raw) |-> Live]
    /\ phase = "start"
    /\ valid_targets = << >>
    /\ invalid_urls = << >>
    /\ session = NoSession
    /\ tasks = << >>
    /\ pc = << >>
    /\ attempt = << >>
    /\ backoff = << >>
    /\ openPages = << >>
    /\ sem = 0
    /\ results = << >>
    /\ errors = << >>
    /\ result = NoResult
    /\ opened = 0
    /\ closed = 0
    /\ fetched = {}
    /\ PageIdle

SpecRetry == InitRetry /\ [][Next]_vars

\* the same program against a scripted site: for each valid url, page.goto
\* raises on its first n attempts and returns on the later ones (a fake fetch
\* that fails n times, then succeeds)
InitScripted ==
    /\ mode \in {"url", "urls"}
    /\ raw \in SeqsUpTo(RawTokens, MaxTargets)
    /\ mode = "url" => Len(raw) <= 1
    /\ config \in [max_retries : 1..MaxRetries, concurrency : 1..MaxConcurrency]
    /\ site \in [ValidUrlsIn(raw) -> { Scripted(n) : n \in 0..config.max_retries }]
    /\ phase = "start"
    /\ valid_targets = << >>
    /\ invalid_urls = << >>
    /\ session = NoSession
    /\ tasks = << >>
    /\ pc = << >>
    /\ attempt = << >>
    /\ backoff = << >>
    /\ openPages = << >>
    /\ sem = 0
    /\ results = << >>
    /\ errors = << >>
    /\ result = NoResult
    /\ opened = 0
    /\ closed = 0
    /\ fetched = {}
    /\ PageIdle

SpecScripted == InitScripted /\ [][Next]_vars


(* ---------------------------------------------------------------------- *)
(* Texts of a page: sequences of characters.  A character outside ASCII is   *)
(* written as its code point: "u5269" is U+5269, "uff19" is U+FF19.         *)
(* ---------------------------------------------------------------------- *)
\* Optional[str]: None, or a string
None == [none |-> TRUE, text |-> << >>]
Some(t) == [none |-> FALSE, text |-> t]

\* \s of the patterns and the characters str.strip() removes
IsSpace(c) == c = " "

RECURSIVE LStrip(_)
LStrip(t) == IF t # << >> /\ IsSpace(Head(t)) THEN LStrip(Tail(t)) ELSE t

RECURSIVE RStrip(_)
RStrip(t) ==
    IF t # << >> /\ IsSpace(t[Len(t)]) THEN RStrip(SubSeq(t, 1, Len(t) - 1)) ELSE t

\* str.strip()
StripText(t) == RStrip(LStrip(t))

\* _normalize_digits on one character: full-width digits and comma to ASCII
NormalizeChar(c) ==
    CASE c = "uff10" -> "0" [] c = "uff11" -> "1" [] c = "uff12" -> "2" [] c = "uff13" -> "3"
      [] c = "uff14" -> "4" [] c = "uff15" -> "5" [] c = "uff16" -> "6" [] c = "uff17" -> "7"
      [] c = "uff18" -> "8" [] c = "uff19" -> "9" [] c = "uff0c" -> ","
      [] OTHER -> c

\* _normalize_digits: text.translate(table)
_normalize_digits(t) == [k \in 1..Len(t) |-> NormalizeChar(t[k])]

\* the class [0-9,] of the patterns
IsCount(c) == c \in {"0", "1", "2", "3", "4", "5", "6", "7", "8", "9", ","}

RECURSIVE RunEnd(_, _)
\* the last index of the run of [0-9,] that starts at i (i - 1 when t[i] is
\* not in the class): the greedy match of [0-9,]+
RunEnd(t, i) == IF i <= Len(t) /\ IsCount(t[i]) THEN RunEnd(t, i + 1) ELSE i - 1

RECURSIVE SkipSpaces(_, _)
\* the first index from i on that holds no space: the greedy match of \s*
SkipSpaces(t, i) == IF i <= Len(t) /\ IsSpace(t[i]) THEN SkipSpaces(t, i + 1) ELSE i

\* group 1 of \s*([0-9,]+) matched at i, << >> when it does not match
CountAfter(t, i) ==
    LET j == SkipSpaces(t, i)
    IN IF RunEnd(t, j) >= j THEN SubSeq(t, j, RunEnd(t, j)) ELSE << >>

\* group 1 of lead[uff1a:]\s*([0-9,]+) matched at i (patterns 1 and 2)
MatchLabelled(t, i, lead) ==
    IF i + 1 <= Len(t) /\ t[i] = lead /\ t[i + 1] \in {"uff1a", ":"}
    THEN CountAfter(t, i + 2) ELSE << >>

\* group 1 of u9084 u5269 \s*([0-9,]+) matched at i (pattern 3)
MatchStillLeft(t, i) ==
    IF i + 1 <= Len(t) /\ t[i] = "u9084" /\ t[i + 1] = "u5269"
    THEN CountAfter(t, i + 2) ELSE << >>

\* group 1 of ([0-9,]+)\s* u5f35? u5269 matched at i (pattern 4)
MatchCountLeft(t, i) ==
    LET e == RunEnd(t, i)
        k == SkipSpaces(t, e + 1)
    IN IF e >= i /\ \/ k <= Len(t) /\ t[k] = "u5269"
                    \/ k + 1 <= Len(t) /\ t[k] = "u5f35" /\ t[k + 1] = "u5269"
       THEN SubSeq(t, i, e) ELSE << >>

\* group 1 of ([0-9,]+) matched at i (pattern 5)
MatchCount(t, i) == IF RunEnd(t, i) >= i THEN SubSeq(t, i, RunEnd(t, i)) ELSE << >>

\* the patterns of _extract_remaining_count, in order
Patterns == 1..5
MatchAt(pat, t, i) ==
    CASE pat = 1 -> MatchLabelled(t, i, "u5269")
      [] pat = 2 -> MatchLabelled(t, i, "u9918")
      [] pat = 3 -> MatchStillLeft(t, i)
      [] pat = 4 -> MatchCountLeft(t, i)
      [] OTHER -> MatchCount(t, i)

\* re.search(pat, t): group 1 of the leftmost match, << >> when there is none
Search(pat, t) ==
    LET at == { i \in 1..Len(t) : MatchAt(pat, t, i) # << >> }
    IN IF at = {} THEN << >>
       ELSE MatchAt(pat, t, CHOOSE i \in at : \A j \in at : i <= j)

\* _extract_remaining_count: None for an empty text, else group 1 of the first
\* pattern that matches the normalized text, else None
_extract_remaining_count(t) ==
    IF t = << >> THEN None
    ELSE LET normalized == _normalize_digits(t)
             hits == { pat \in Patterns : Search(pat, normalized) # << >> }
         IN IF hits = {} THEN None
            ELSE Some(Search(CHOOSE pat \in hits : \A q \in hits : pat <= q, normalized))

(* ---------------------------------------------------------------------- *)
(* One attempt looked at closely: the try block of _fetch_single_page      *)
(* ---------------------------------------------------------------------- *)
\* the most rows a page has
MaxRows == 2

\* a sub-element of a row: absent (count() is 0), raising when it is read, or
\* present with a text
Absent == [kind |-> "absent", text |-> << >>]
Raising == [kind |-> "raises", text |-> << >>]
Text(t) == [kind |-> "text", text |-> t]

\* the rows a page can have: date, description and remaining-count element
RowKinds ==
    [ date : { Absent, Raising, Text(<< " ", "1", "1", "/", "5", " " >>) },
      desc : { Absent, Text(<< "1", "9", ":", "3", "0" >>) },
      remain : { Absent, Raising,
                 Text(<< " ", "u5269", "uff1a", "uff19", "1" >>),
                 Text(<< "s", "o", "l", "d" >>) } ]

\* _parse_single_row: one of its three inner try blocks: the text stays ""
\* unless the element is there and inner_text() returns
ReadField(el) == IF el.kind = "text" THEN StripText(el.text) ELSE << >>

\* what _parse_single_row returns instead of a dict
NoEntry == [none |-> TRUE]

\* _parse_single_row that gives up a row without a remaining-count text
parse_single_row_strict(row) ==
    IF ReadField(row.remain) = << >> THEN NoEntry
    ELSE [none |-> FALSE,
          label |-> Some(StripText(ReadField(row.date) \o << " " >> \o ReadField(row.desc))),
          remaining |-> _extract_remaining_count(ReadField(row.remain)),
          raw_remaining_text |-> ReadField(row.remain),
          date |-> ReadField(row.date),
          description |-> ReadField(row.desc)]

\* _parse_single_row: the three texts, each read in its own try block, the
\* count extracted from the remaining text, the label made of date and
\* description.  Nothing outside the inner try blocks raises, so the outer
\* except branch (return None) is not taken
_parse_single_row(row) ==
    LET date_txt == ReadField(row.date)
        desc_txt == ReadField(row.desc)
        remain_txt == ReadField(row.remain)
    IN [none |-> FALSE,
        label |-> IF date_txt # << >> \/ desc_txt # << >>
                  THEN Some(StripText(date_txt \o << " " >> \o desc_txt))
                  ELSE None,
        remaining |-> _extract_remaining_count(remain_txt),
        raw_remaining_text |-> remain_txt,
        date |-> date_txt,
        description |-> desc_txt]

\* the labels _handle_popups looks for, romanized, in the order of the list
popup_texts == << "tongyi", "jieshou", "wozhidaole", "OK", "guanbi", "queding", "x" >>

\* SuccessDict that takes a page without entries for a failure
SuccessDictNonEmpty(es) ==
    [kind |-> "dict", success |-> es # << >>, entries |-> es, error |-> ""]

\* the dict of the return statement of the try block
SuccessDict(es) == [kind |-> "dict", success |-> TRUE, entries |-> es, error |-> ""]

\* the dict of the except branch
FailureDict(e) == [kind |-> "dict", success |-> FALSE, entries |-> << >>, error |-> e]

\* an exception of the call named `from` reaches the except branch of
\* _fetch_single_page
Caught(from) ==
    /\ exc' = from
    /\ step' = "except"

\* page.goto
Goto ==
    /\ step = "goto"
    /\ \/ step' = "primary" /\ UNCHANGED exc
       \/ Caught("page.goto")
    /\ UNCHANGED << waits, probed, total, rows, row_i, entries, ret >>
    /\ UNCHANGED << inputVars, batchVars, workerVars >>

\* _wait_for_content: what follows the wait for .events__list__table: the
\* function returns, or the except PWTimeout branch, or the exception leaves
AfterPrimary(outcome) ==
    CASE outcome = "found" -> "ready"
      [] outcome = "timeout" -> "network"
      [] OTHER -> "raise"

\* _wait_for_content: the wait for the listing container
PrimaryWait ==
    /\ step = "primary"
    /\ \E outcome \in {"found", "timeout", "error"} :
          /\ waits' = Append(waits, [stage |-> "PrimaryWait", outcome |-> outcome])
          /\ IF AfterPrimary(outcome) = "raise"
             THEN Caught("_wait_for_content")
             ELSE step' = AfterPrimary(outcome) /\ UNCHANGED exc
    /\ UNCHANGED << probed, total, rows, row_i, entries, ret >>
    /\ UNCHANGED << inputVars, batchVars, workerVars >>

\* _wait_for_content: what follows wait_for_load_state("networkidle"): the
\* function returns (after a warning, on a timeout), or the exception leaves
AfterNetwork(outcome) ==
    CASE outcome = "idle" -> "ready"
      [] outcome = "timeout" -> "ready"
      [] OTHER -> "raise"

\* _wait_for_content: the wait for the network to be idle
NetworkQuiescenceWait ==
    /\ step = "network"
    /\ \E outcome \in {"idle", "timeout", "error"} :
          /\ waits' = Append(waits, [stage |-> "NetworkQuiescenceWait", outcome |-> outcome])
          /\ IF AfterNetwork(outcome) = "raise"
             THEN Caught("_wait_for_content")
             ELSE step' = AfterNetwork(outcome) /\ UNCHANGED exc
    /\ UNCHANGED << probed, total, rows, row_i, entries, ret >>
    /\ UNCHANGED << inputVars, batchVars, workerVars >>

\* _wait_for_content has returned; _handle_popups is entered
HandlePopups ==
    /\ step = "ready"
    /\ step' = "probe"
    /\ waits' = << >>
    /\ UNCHANGED << probed, total, rows, row_i, entries, exc, ret >>
    /\ UNCHANGED << inputVars, batchVars, workerVars >>

\* AfterProbe without the break
AfterProbeNoBreak(outcome, n) ==
    IF n = Len(popup_texts) THEN "popups_done" ELSE "probe"

\* _handle_popups: after the click on the n-th label: break after a click
\* that returned (and the sleep of 0.4 s), continue after one that raised, and
\* leave the loop after the last label
AfterProbe(outcome, n) ==
    IF outcome = "clicked" \/ n = Len(popup_texts) THEN "popups_done" ELSE "probe"

\* _handle_popups: one turn of the loop: the click on the next label
Probe ==
    /\ step = "probe"
    /\ \E outcome \in {"clicked", "raises"} :
          /\ probed' = Append(probed, [text |-> popup_texts[Len(probed) + 1],
                                       outcome |-> outcome])
          /\ step' = AfterProbe(outcome, Len(probed) + 1)
    /\ UNCHANGED << waits, total, rows, row_i, entries, exc, ret >>
    /\ UNCHANGED << inputVars, batchVars, workerVars >>

\* _handle_popups has returned; _get_event_title, whose every step is inside
\* a try block, returns a title or None
GetEventTitle ==
    /\ step = "popups_done"
    /\ step' = "count"
    /\ probed' = << >>
    /\ UNCHANGED << waits, total, rows, row_i, entries, exc, ret >>
    /\ UNCHANGED << inputVars, batchVars, workerVars >>

\* _parse_ticket_info up to its loop: rows.count(), outside any try block of
\* the function, returns the number of rows of the page or raises
Count ==
    /\ step = "count"
    /\ \/ /\ \E page_rows \in SeqsUpTo(RowKinds, MaxRows) :
                /\ rows' = page_rows
                /\ total' = Len(page_rows)
                /\ step' = IF Len(page_rows) = 0 THEN "return" ELSE "row"
          /\ UNCHANGED exc
       \/ /\ Caught("_parse_ticket_info")
          /\ UNCHANGED << rows, total >>
    /\ UNCHANGED << waits, probed, row_i, entries, ret >>
    /\ UNCHANGED << inputVars, batchVars, workerVars >>

\* _parse_ticket_info: one turn of the loop: the entry of the next row is
\* appended if it is one
ParseRow ==
    /\ step = "row"
    /\ LET entry == _parse_single_row(rows[row_i + 1])
       IN entries' = IF entry.none THEN entries ELSE Append(entries, entry)
    /\ row_i' = row_i + 1
    /\ step' = IF row_i + 1 = total THEN "return" ELSE "row"
    /\ UNCHANGED << waits, probed, total, rows, exc, ret >>
    /\ UNCHANGED << inputVars, batchVars, workerVars >>

\* the return statement of the try block
ReturnSuccess ==
    /\ step = "return"
    /\ ret' = SuccessDict(entries)
    /\ step' = "close"
    /\ UNCHANGED << waits, probed, total, rows, row_i, entries, exc >>
    /\ UNCHANGED << inputVars, batchVars, workerVars >>

\* the except branch of _fetch_single_page
Except ==
    /\ step = "except"
    /\ ret' = FailureDict(exc)
    /\ step' = "close"
    /\ UNCHANGED << waits, probed, total, rows, row_i, entries, exc >>
    /\ UNCHANGED << inputVars, batchVars, workerVars >>

\* the finally: page.close() returns and the dict goes through _retry_fetch
\* to worker, or it raises and its exception leaves _fetch_single_page in
\* place of the dict (the step FetchPage of the one worker, with the try block
\* spelled out)
ClosePage ==
    /\ step = "close"
    /\ openPages' = [openPages EXCEPT ![1] = AfterFinally(@)]
    /\ \/ /\ step' = "returned"
          /\ AppendResult(1, PageResult(tasks[1], ret.success))
          /\ UNCHANGED ret
       \/ /\ step' = "raised"
          /\ ret' = NoDict
          /\ RetryOrRaise(1, "Error: page.close")
    /\ UNCHANGED << waits, probed, total, rows, row_i, entries, exc >>
    /\ UNCHANGED fetched
    /\ UNCHANGED << inputVars, batchVars >>

NextPage ==
    \/ Goto
    \/ PrimaryWait
    \/ NetworkQuiescenceWait
    \/ HandlePopups
    \/ Probe
    \/ GetEventTitle
    \/ Count
    \/ ParseRow
    \/ ReturnSuccess
    \/ Except
    \/ ClosePage

\* context.new_page() has returned a page for the one target of a batch
InitPage ==
    /\ mode = "url"
    /\ raw = << Token(UrlA, FALSE) >>
    /\ config \in [max_retries : 1..MaxRetries, concurrency : {1}]
    /\ site = [u \in ValidUrlsIn(raw) |-> Live]
    /\ phase = "gather"
    /\ valid_targets = << UrlA >>
    /\ invalid_urls = << >>
    /\ session = InitBrowser("ok")
    /\ tasks = << UrlA >>
    /\ pc = << "page" >>
    /\ attempt = << 0 >>
    /\ backoff = << 0 >>
    /\ openPages = << 1 >>
    /\ sem = 0
    /\ results = << >>
    /\ errors = << >>
    /\ result = NoResult
    /\ opened = 1
    /\ closed = 0
    /\ fetched = { UrlA.text }
    /\ step = "goto"
    /\ waits = << >>
    /\ probed = << >>
    /\ total = -1
    /\ rows = << >>
    /\ row_i = 0
    /\ entries = << >>
    /\ exc = ""
    /\ ret = NoDict

SpecPage == InitPage /\ [][NextPage]_vars

(* ---------------------------------------------------------------------- *)
(* Properties                                                              *)
(* ---------------------------------------------------------------------- *)
RECURSIVE SumTo(_, _)
\* f[1] + ... + f[n]
SumTo(f, n) == IF n = 0 THEN 0 ELSE f[n] + SumTo(f, n - 1)

\* pages opened by _fetch_single_page and not yet closed, over all workers
OpenPageCount == SumTo(openPages, Len(openPages))

\* how many entries of the list s carry the url text t
ResultsFor(s, t) == Cardinality({ i \in 1..Len(s) : s[i].url = t })
ErrorsFor(s, t) == Cardinality({ i \in 1..Len(s) : ~s[i].raw /\ s[i].url = t })

\* how many members of the sequence of urls s have the text t
Occurrences(s, t) == Cardinality({ i \in 1..Len(s) : s[i].text = t })

\* run_once was given at least one target and has returned its dict
BatchReturned == phase = "returned" /\ result.kind = "aggregate" /\ CollectTargets # << >>

\* C1: in every state of a batch, the pages opened by _fetch_single_page and
\* not yet closed are at most config.concurrency
C1_PagesWithinConcurrency == OpenPageCount <= config.concurrency

\* C1 witness: as many pages open as the limit allows while a further worker
\* waits at the gate
C1_Witness ==
    /\ phase = "gather"
    /\ config.concurrency = 2
    /\ OpenPageCount = config.concurrency
    /\ \E w \in Workers : pc[w] = "gate"

\* C2: at every moment of the gather, and so when the batch returns, the
\* outcomes recorded for a url (its PageResults in results plus its error
\* records in errors) are exactly as many as the workers of that url that
\* have finished: one outcome per worker, k outcomes for a url given k times
C2_OneOutcomePerTarget ==
    /\ \A w \in Workers :
          ResultsFor(results, tasks[w].text) + ErrorsFor(errors, tasks[w].text)
             = Cardinality({ v \in Workers : tasks[v].text = tasks[w].text /\ pc[v] = "done" })
    /\ Len(results) + Len(errors) = Cardinality({ v \in Workers : pc[v] = "done" })
    /\ BatchReturned =>
          \A i \in 1..Len(valid_targets) :
             ResultsFor(result.results, valid_targets[i].text)
                + ErrorsFor(result.errors, valid_targets[i].text)
                = Occurrences(valid_targets, valid_targets[i].text)

\* C2 witness: a returned batch that held the same url twice, with one of its
\* outcomes in results and the other in errors
C2_Witness ==
    /\ BatchReturned
    /\ \E t \in { valid_targets[i].text : i \in 1..Len(valid_targets) } :
          /\ Occurrences(valid_targets, t) = 2
          /\ ResultsFor(result.results, t) = 1
          /\ ErrorsFor(result.errors, t) = 1


\* C3: every PageResult in results has success = true (a target whose
\* attempts failed is an error record, never a PageResult)
C3_ResultsAreSuccesses ==
    /\ \A i \in 1..Len(results) : results[i].success
    /\ \A i \in 1..Len(result.results) : result.results[i].success

\* the step in which worker w records its outcome
Finishing(w) == pc[w] # "done" /\ pc'[w] = "done"

\* the site of worker w lets page.goto raise on every attempt before the last
\* allowed one and return on the last
FailsUntilLastAttempt(w) ==
    /\ config.max_retries >= 2
    /\ site[tasks[w]] = Scripted(config.max_retries - 1)

\* C4: a worker whose attempts before the last allowed one fail in page.goto
\* and whose last allowed attempt succeeds records its outcome only after
\* exactly max_retries attempts, and the outcome is a PageResult with
\* success = true.  (attempt[w] = 0 and a grown results: no exception of
\* new_page or page.close has left an attempt of w, the only other way an
\* attempt fails.)
C4_RecoversOnLastAttempt ==
    [][ \A w \in Workers :
           (Finishing(w) /\ FailsUntilLastAttempt(w) /\ attempt[w] = 0 /\ results' # results)
              => /\ attempt[w] + 1 = config.max_retries
                 /\ results' = Append(results, PageResult(tasks[w], TRUE)) ]_vars

\* every page.goto of every target raises
EveryAttemptFails == \A u \in DOMAIN site : site[u] = Scripted(config.max_retries)

\* C5: a batch of N valid targets whose every attempt fails returns
\* summary = {total: N, success: 0, failed: N} and errors holds the url of
\* each target once per occurrence
C5_AllFailedSummary ==
    (BatchReturned /\ invalid_urls = << >> /\ valid_targets # << >> /\ EveryAttemptFails)
       => /\ result.summary = Summary(Len(valid_targets), 0, Len(valid_targets))
          /\ \A i \in 1..Len(valid_targets) :
                ErrorsFor(result.errors, valid_targets[i].text)
                   = Occurrences(valid_targets, valid_targets[i].text)

\* C6: for a batch of valid and invalid targets run_once returns a summary
\* computed after the merge: total = all targets, success = len(results),
\* failed = len(errors)
C6_SummaryAfterMerge ==
    (BatchReturned /\ valid_targets # << >> /\ invalid_urls # << >>)
       => result.summary = Summary(Len(valid_targets) + Len(invalid_urls),
                                   Len(result.results), Len(result.errors))

\* C7: a non-empty batch of invalid urls only returns results = [], errors =
\* one invalid-format record per input and nothing else, summary.success = 0
C7_OnlyInvalid ==
    (BatchReturned /\ valid_targets = << >> /\ invalid_urls # << >>)
       => /\ result.results = << >>
          /\ result.errors = InvalidRecords(invalid_urls, 1)
          /\ Len(result.summary) = 1
          /\ result.summary[1].success = 0

\* structural validity as the specification words it: an http or https
\* scheme, a host of the allow-list, a path with the /event/ marker
StructurallyValid(u) ==
    /\ u.scheme \in {"http", "https"}
    /\ u.netloc \in {"opentix.life", "www.opentix.life"}
    /\ u.event

\* the targets run_once was given that fail structural validation
InvalidInput == { t \in Range(CollectTargets) : ~StructurallyValid(t) }

\* C8: no page is ever requested for a target that fails the validity test,
\* and when run_once returns its dict the target has its error record (one
\* per occurrence)
C8_InvalidNeverFetched ==
    /\ \A t \in InvalidInput : t.text \notin fetched
    /\ \A w \in Workers : StructurallyValid(tasks[w])
    /\ BatchReturned =>
          \A t \in InvalidInput :
             ErrorsFor(result.errors, t.text) = Occurrences(CollectTargets, t.text)

\* C8 witness: a returned batch in which a page was requested for a valid
\* target and an off-domain target got its record
C8_Witness ==
    /\ BatchReturned
    /\ OffDomain \in InvalidInput
    /\ fetched # {}
    /\ ErrorsFor(result.errors, OffDomain.text) = 1

\* C9: at most one session is opened and it is torn down at most once; a batch
\* that returns its dict has opened and torn down exactly one; the teardown
\* runs only when every worker has finished; a page is requested or open only
\* while the session is open
C9_OneSessionAroundWorkers ==
    /\ opened <= 1
    /\ closed <= opened
    /\ BatchReturned => (opened = 1 /\ closed = 1)
    /\ closed = 1 => \A w \in Workers : pc[w] = "done"
    /\ \A w \in Workers :
          (openPages[w] > 0 \/ pc[w] \in {"new_page", "page"})
             => (opened = 1 /\ closed = 0 /\ session.context = "open")

\* C9 witness: a returned batch, torn down once, one of whose workers failed
C9_Witness ==
    /\ BatchReturned
    /\ closed = 1
    /\ \E i \in 1..Len(result.errors) : result.errors[i].error = "Error: new_page"
    /\ result.results # << >>

\* C10: a worker has a page open only inside an attempt (between new_page and
\* the end of the finally) and never more than one; between attempts, after
\* its outcome, and when the batch returns, none is open
C10_PageClosedWithinAttempt ==
    /\ \A w \in Workers :
          /\ openPages[w] \in {0, 1}
          /\ openPages[w] = 1 <=> pc[w] = "page"
    /\ phase \in {"exit", "merge", "returned"} => OpenPageCount = 0

\* C10 witness: a returned batch with a failed PageResult and an error record
\* of page.close: attempts whose try block and whose finally failed
C10_Witness ==
    /\ BatchReturned
    /\ \E i \in 1..Len(result.results) : ~result.results[i].success
    /\ \E i \in 1..Len(result.errors) : result.errors[i].error = "Error: page.close"

\* the list s' is the list s with its entries kept and at most one more at the end
GrowsByAppend(s, t) ==
    \/ t = s
    \/ Len(t) = Len(s) + 1 /\ SubSeq(t, 1, Len(s)) = s

\* the step leaves every worker other than w where it is
OthersUntouched(w) ==
    \A v \in Workers \ {w} :
       /\ pc'[v] = pc[v]
       /\ attempt'[v] = attempt[v]
       /\ openPages'[v] = openPages[v]

\* C11: the step in which a worker gives up (its target failed on its last
\* allowed attempt) records an error for its own target only: every other
\* worker stays where it is (none is cancelled), no recorded outcome is
\* changed or removed, and one slot is handed back; and no step of the batch
\* ever changes or removes an outcome already recorded
C11_FailureIsolated ==
    [][ /\ GrowsByAppend(results, results')
        /\ GrowsByAppend(errors, errors')
        /\ \A w \in Workers :
              (phase = "gather" /\ Finishing(w) /\ errors' # errors)
                 => /\ OthersUntouched(w)
                    /\ results' = results
                    /\ errors'[Len(errors')].url = tasks[w].text
                    /\ sem' = sem + 1 ]_vars

\* C11 witness: a worker whose target failed has recorded its error, and a
\* worker for another target has finished after it with a result
C11_Witness ==
    /\ phase = "gather"
    /\ \E v \in Workers, w \in Workers :
          /\ tasks[v] # tasks[w]
          /\ pc[v] = "done" /\ pc[w] = "done"
          /\ ErrorsFor(errors, tasks[v].text) = 1
          /\ PageResult(tasks[w], TRUE) \in Range(results)
          /\ \E x \in Workers : pc[x] \notin {"done", "gate"}

\* scrape_multiple has returned its dict
ScrapeReturned == phase \in {"exit", "merge", "returned"} /\ result.kind = "aggregate"

\* C12: once the session is open, scrape_multiple eventually returns its
\* dict; it has returned only when every worker is done; and no failure of a
\* target, in any number, leaves it as an exception
C12_BatchAlwaysReturns ==
    /\ (phase = "scrape") ~> ScrapeReturned
    /\ [](opened = 1 /\ phase # "gather" /\ phase # "scrape"
            => ScrapeReturned /\ \A w \in Workers : pc[w] = "done")
    /\ [](opened = 1 => result.kind # "raised")

\* C12 witness: scrape_multiple has returned for a batch of two targets that
\* both failed: no result, two errors
C12_Witness ==
    /\ ScrapeReturned
    /\ Len(tasks) = 2
    /\ result.results = << >>
    /\ Len(result.errors) = 2
    /\ result.summary = Summary(2, 0, 2)

\* C17: a worker is never in an attempt with index max_retries or more; it
\* sleeps only after a failed attempt k that is not the last allowed one, for
\* exactly retry_delay * 2^k seconds, and is in no sleep otherwise; the
\* attempt that returns is its last (it goes to record its outcome), and the
\* attempt index grows by one per sleep
C17_RetryBackoff ==
    /\ [](\A w \in Workers :
            /\ attempt[w] < config.max_retries
            /\ pc[w] = "sleep" => /\ attempt[w] + 1 < config.max_retries
                                  /\ backoff[w] = RetryDelay * (2 ^ attempt[w])
            /\ pc[w] # "sleep" => backoff[w] = 0)
    /\ [][ \A w \in Workers :
             /\ (phase = "gather" /\ pc[w] = "page" /\ results' # results) => pc'[w] = "done"
             /\ (phase = "gather" /\ attempt'[w] # attempt[w])
                   => \/ pc[w] = "sleep" /\ attempt'[w] = attempt[w] + 1
                      \/ pc'[w] = "done" /\ attempt'[w] = 0 ]_vars

\* C17 witness: a worker sleeps 4 seconds after its second failed attempt
\* (index 1) of three allowed
C17_Witness ==
    /\ phase = "gather"
    /\ config.max_retries = 3
    /\ \E w \in Workers : pc[w] = "sleep" /\ attempt[w] = 1 /\ backoff[w] = 4

\* the workers that hold a slot: in an attempt or in a backoff sleep
InProgress == { w \in Workers : pc[w] \in {"new_page", "page", "sleep"} }

\* C20: the free slots are the slots of the gate less the workers in progress,
\* so at most config.concurrency targets are in progress and, when all are
\* done, every slot is back; a worker takes a slot only in the step that
\* leaves the gate and hands it back only in the step that appends its
\* outcome; and every worker waiting at the gate is eventually admitted
C20_SlotHeldUntilOutcome ==
    /\ [](phase = "gather"
            => /\ Cardinality(InProgress) <= config.concurrency
               /\ sem = config.concurrency - Cardinality(InProgress))
    /\ [][ phase = "gather" /\ phase' = "gather" =>
             /\ sem' < sem => \E w \in Workers :
                                 /\ pc[w] = "gate" /\ pc'[w] = "new_page"
                                 /\ attempt[w] = 0 /\ sem' = sem - 1
             /\ sem' > sem => \E w \in Workers :
                                 /\ Finishing(w) /\ sem' = sem + 1
                                 /\ Len(results') + Len(errors')
                                      = Len(results) + Len(errors) + 1
             /\ \A w \in Workers : pc[w] # "gate" => pc'[w] # "gate" ]_vars
    /\ \A w \in 1..MaxTargets :
          (phase = "gather" /\ w \in DOMAIN pc /\ pc[w] = "gate")
             ~> (w \in DOMAIN pc /\ pc[w] # "gate")

\* C20 witness: the gate is full with one worker backing off and one in an
\* attempt, a third waits, and an earlier outcome is already recorded
C20_Witness ==
    /\ phase = "gather"
    /\ config.concurrency = 2
    /\ sem = 0
    /\ \E u \in Workers, v \in Workers, w \in Workers :
          pc[u] = "sleep" /\ pc[v] = "page" /\ pc[w] = "gate"

\* C14: once the teardown of the session has run, neither the context nor
\* the browser is left open: close() has been called on both, whatever the
\* close of the context did
C14_TeardownClosesBrowser ==
    closed >= 1 => session.context # "open" /\ session.browser # "open"

\* C13: no exception caught by _fetch_single_page comes out of
\* _wait_for_content: whatever its waits do, the detector returns
C13_DetectorNeverRaises == exc # "_wait_for_content"

\* the detector has made a wait of this stage that timed out
TimedOut(stage) == [stage |-> stage, outcome |-> "timeout"] \in Range(waits)

\* C18: the waits of the detector come in order, NetworkQuiescenceWait only
\* right after a PrimaryWait that timed out, GraceDelay only right after a
\* NetworkQuiescenceWait that timed out; and when the detector returns after
\* both waits timed out, its last stage was a GraceDelay
C18_ThreeStagesInOrder ==
    /\ \A k \in 1..Len(waits) :
          /\ k = 1 => waits[k].stage = "PrimaryWait"
          /\ waits[k].stage = "NetworkQuiescenceWait"
                => k > 1 /\ waits[k - 1] = [stage |-> "PrimaryWait", outcome |-> "timeout"]
          /\ waits[k].stage = "GraceDelay"
                => k > 1 /\ waits[k - 1] = [stage |-> "NetworkQuiescenceWait",
                                              outcome |-> "timeout"]
    /\ (step = "ready" /\ TimedOut("PrimaryWait") /\ TimedOut("NetworkQuiescenceWait"))
          => waits[Len(waits)].stage = "GraceDelay"

\* C19: the labels probed are the first labels of the list, in its order,
\* each once (so at most 7); only the last probe can be a click that
\* returned, and no label is probed after it; no exception of a click
\* reaches the caller, who goes on once the loop is left
C19_PopupsBestEffort ==
    /\ Len(probed) <= 7
    /\ \A k \in 1..Len(probed) :
          /\ probed[k].text = popup_texts[k]
          /\ k < Len(probed) => probed[k].outcome = "raises"
    /\ step = "probe" => \A k \in 1..Len(probed) : probed[k].outcome = "raises"
    /\ probed # << >> => step \in {"probe", "popups_done"}
    /\ exc # "_handle_popups"

\* C19 witness: the click on the third label returned after the first two
\* raised, and _handle_popups is left
C19_Witness ==
    /\ step = "popups_done"
    /\ Len(probed) = 3
    /\ probed[1].outcome = "raises" /\ probed[2].outcome = "raises"
    /\ probed[3] = [text |-> "wozhidaole", outcome |-> "clicked"]

\* C15: when rows.count() has returned 0, the attempt ends with the dict
\* success = True, entries = [], not with the except branch; and when
\* page.close() has returned, that dict is the outcome of the worker: one
\* PageResult in results, nothing in errors, no further attempt
C15_ZeroRowsIsSuccess ==
    total = 0 =>
       /\ exc = ""
       /\ step \in {"close", "returned"}
             => ret.kind = "dict" /\ ret.success /\ ret.entries = << >>
       /\ step = "returned"
             => /\ pc[1] = "done"
                /\ results = << PageResult(tasks[1], TRUE) >>
                /\ errors = << >>

\* C15 witness: an attempt after a timed-out detector has found no row and
\* the worker has recorded its result, with an attempt to spare
C15_Witness ==
    /\ total = 0
    /\ step = "returned"
    /\ config.max_retries = 2
    /\ ret.success

\* C16: the entries are one per row gone through, in the order of the rows,
\* each with the texts of its own row, whatever sub-elements are absent or
\* raise; a row without a remaining-count text has remaining = None and
\* raw_remaining_text = ""; and the dict returned has all of them
C16_OneEntryPerRow ==
    total >= 0 =>
       /\ Len(entries) = row_i
       /\ \A k \in 1..Len(entries) :
             /\ entries[k].date = ReadField(rows[k].date)
             /\ entries[k].description = ReadField(rows[k].desc)
             /\ entries[k].raw_remaining_text = ReadField(rows[k].remain)
             /\ rows[k].remain.kind # "text"
                   => entries[k].remaining = None /\ entries[k].raw_remaining_text = << >>
       /\ (step \in {"close", "returned"} /\ exc = "")
             => ret.entries = entries /\ Len(ret.entries) = total

\* C16 witness: a page of two rows, the first without a date (reading it
\* raised) and without a remaining-count element, the second with a count:
\* two entries are returned, the first with remaining = None
C16_Witness ==
    /\ step = "returned"
    /\ total = 2
    /\ rows[1].date = Raising /\ rows[1].remain = Absent
    /\ rows[2].remain.kind = "text"
    /\ Len(ret.entries) = 2
    /\ ret.entries[1].remaining = None
    /\ ret.entries[2].remaining = Some(<< "9", "1" >>)

====
